---- MODULE Spec2Model ----
(***************************************************************************)
(* Model of parade.server.dash.chart.CustomChart                           *)
(* (src/src/parade/server/dash/chart/__init__.py).                         *)
(*                                                                         *)
(* Python objects that the code shares by reference are modelled with      *)
(* explicit identity: dictionaries handed to the axis_range setter live in *)
(* `heap`, the class-level `annotations` list lives in `annClass`, and a   *)
(* layout entry remembers which object it is (`src`).                      *)
(***************************************************************************)
EXTENDS Integers, Sequences, FiniteSets, TLC

VARIABLES
    heap,             \* object id -> value of a dict usable as axis_range
    axisRef,          \* instance -> object id that self._axis_range resolves to
    annClass,         \* value of the class attribute CustomChart.annotations
    annOwn,           \* instance -> [has, val]: instance attribute `annotations`
    annTouched,       \* history: instances whose annotations the caller changed
    title,            \* instance -> self.title
    labels,           \* instance -> self.labels
    layout_overrides, \* instance -> self.layout_overrides
    mutations,        \* number of in-place dict changes made by the caller
    res               \* observation of the last operation

vars == <<heap, axisRef, annClass, annOwn, annTouched, title, labels,
          layout_overrides, mutations, res>>

-----------------------------------------------------------------------------
(* Bounds *)

NumCallerDicts == 2
MaxMutations == 1
MaxOverrides == 2
MaxAnnotations == 1

-----------------------------------------------------------------------------
(* Values *)

Insts == {"A", "B"}
ClassDict == 0
ObjIds == 0..NumCallerDicts
CallerDicts == 1..NumCallerDicts

\* One bound of an axis: a Python value tagged with its validator type name.
\* `val` distinguishes values of one type.
E(t, v) == [type |-> t, val |-> v]
I0 == E("integer", 0)
I1 == E("integer", 1)
F0 == E("float", 0)
S0 == E("string", 0)
N0 == E("none", 0)
Elems == {I0, S0, N0}

\* The value stored under an axis key: a list of items, or a scalar.
Lst(items) == [type |-> "list", items |-> items]
Scalar5 == [type |-> "integer", items |-> <<>>]

EmptyDict == [k \in {} |-> Scalar5]
Keys == {"x", "y", "z"}

Pairs == {Lst(<<a, b>>) : a \in Elems, b \in Elems}

\* Dictionaries the caller builds and passes to the setter.
AxisInputs ==
    {EmptyDict}
    \cup {("x" :> v) : v \in Pairs}
    \cup {("y" :> v) : v \in Pairs}
    \cup {("x" :> Lst(<<F0, I0>>)), ("y" :> Lst(<<I0, F0>>)), ("y" :> Lst(<<F0, S0>>))}
    \cup {("x" :> Lst(<<I0>>)), ("x" :> Lst(<<I0, I1, I0>>)), ("y" :> Lst(<<I0>>)),
          ("y" :> Lst(<<>>)), ("x" :> Scalar5), ("z" :> Lst(<<I0, I1>>))}
    \cup {("x" :> Lst(<<I0, I1>>)) @@ ("y" :> Lst(<<I0, F0>>)),
          ("x" :> Lst(<<S0, S0>>)) @@ ("y" :> Lst(<<F0, I1>>)),
          ("x" :> Lst(<<S0, S0>>)) @@ ("y" :> Lst(<<S0, S0>>)),
          ("x" :> Lst(<<I0, I1>>)) @@ ("z" :> Lst(<<I0, I1>>)),
          ("x" :> Lst(<<I0, I1>>)) @@ ("y" :> Lst(<<I0>>))}

\* The further dicts the caller holds.
OtherInput(o) ==
    IF o % 2 = 0 THEN ("x" :> Lst(<<I0, F0>>)) ELSE ("y" :> Lst(<<I1, I0>>))

\* Values the caller writes in place into a dict it holds.
MutVals == {Lst(<<I0>>)}

-----------------------------------------------------------------------------
(* axis_range: schema, validation, getter, setter *)

NumOrStr == {"integer", "float", "string"}
Num == {"integer", "float"}

\* The schema with the y rule copied onto x.
_axis_range_schema_numeric_x ==
    [x |-> [items |-> <<Num, Num>>, required |-> FALSE, type |-> "list"],
     y |-> [items |-> <<Num, Num>>, required |-> FALSE, type |-> "list"]]

_axis_range_schema ==
    [x |-> [items |-> <<NumOrStr, NumOrStr>>, required |-> FALSE, type |-> "list"],
     y |-> [items |-> <<Num, Num>>, required |-> FALSE, type |-> "list"]]

\* Errors of one field against its rule set {type, items, required}.
FieldErrors(v, rule) ==
    IF v.type # rule.type THEN {"type"}
    ELSE IF Len(v.items) # Len(rule.items) THEN {"items_length"}
    ELSE IF \E n \in 1..Len(rule.items) : v.items[n].type \notin rule.items[n]
         THEN {"items_type"}
    ELSE {}

\* validate(document, schema): the set of <<field, error>> found.
validate(document, schema) ==
    {<<k, "unknown field">> : k \in (DOMAIN document) \ (DOMAIN schema)}
    \cup {<<k, "required field">> :
            k \in {f \in DOMAIN schema : schema[f].required} \ (DOMAIN document)}
    \cup UNION {{<<k, e>> : e \in FieldErrors(document[k], schema[k])} :
                  k \in (DOMAIN document) \cap (DOMAIN schema)}

\* The axis_range getter: return self._axis_range.
axis_range(i) == heap[axisRef[i]]

\* The setter assigning without validating.
SetAxisRangeUnchecked(i, o) ==
    /\ axisRef' = [axisRef EXCEPT ![i] = o]
    /\ res' = [op |-> "set_axis_range", inst |-> i, arg |-> heap[o],
               err |-> "none", before |-> axis_range(i), after |-> heap[o],
               others |-> [j \in Insts \ {i} |-> axis_range(j)],
               othersAfter |-> [j \in Insts \ {i} |-> axis_range(j)]]
    /\ UNCHANGED <<heap, annClass, annOwn, annTouched, title, labels,
                   layout_overrides, mutations>>

\* The setter storing the value on the class instead of the instance.
SetAxisRangeOnClass(i, o) ==
    LET arg == heap[o]
        errors == validate(arg, _axis_range_schema)
    IN  /\ axisRef' = IF errors # {} THEN axisRef ELSE [j \in Insts |-> o]
        /\ res' = [op |-> "set_axis_range", inst |-> i, arg |-> arg,
                   err |-> IF errors # {} THEN "RuntimeError" ELSE "none",
                   before |-> axis_range(i),
                   after |-> heap[axisRef'[i]],
                   others |-> [j \in Insts \ {i} |-> axis_range(j)],
                   othersAfter |-> [j \in Insts \ {i} |-> heap[axisRef'[j]]]]
        /\ UNCHANGED <<heap, annClass, annOwn, annTouched, title, labels,
                       layout_overrides, mutations>>

\* self.axis_range = <the dict object o>
SetAxisRange(i, o) ==
    LET arg == heap[o]
        errors == validate(arg, _axis_range_schema)
    IN  /\ axisRef' = IF errors # {} THEN axisRef ELSE [axisRef EXCEPT ![i] = o]
        /\ res' = [op |-> "set_axis_range", inst |-> i, arg |-> arg,
                   err |-> IF errors # {} THEN "RuntimeError" ELSE "none",
                   before |-> axis_range(i),
                   after |-> heap[axisRef'[i]],
                   others |-> [j \in Insts \ {i} |-> axis_range(j)],
                   othersAfter |-> [j \in Insts \ {i} |-> heap[axisRef'[j]]]]
        /\ UNCHANGED <<heap, annClass, annOwn, annTouched, title, labels,
                       layout_overrides, mutations>>

\* The objects the caller can reach: its own dicts, and the class-level dict
\* (CustomChart._axis_range, also what the getter of a new instance returns),
\* which the caller keeps holding whatever the instances refer to later.
Reachable(o) == o \in CallerDicts \/ o = ClassDict

\* d[k] = v on a dict the caller holds.
CallerSetItem(o, k, v) ==
    /\ mutations < MaxMutations
    /\ Reachable(o)
    /\ heap' = [heap EXCEPT ![o] = (k :> v) @@ heap[o]]
    /\ mutations' = mutations + 1
    /\ res' = [op |-> "caller_setitem", obj |-> o]
    /\ UNCHANGED <<axisRef, annClass, annOwn, annTouched, title, labels,
                   layout_overrides>>

\* del d[k] on a dict the caller holds.
CallerDelItem(o, k) ==
    /\ mutations < MaxMutations
    /\ Reachable(o)
    /\ k \in DOMAIN heap[o]
    /\ heap' = [heap EXCEPT ![o] = [f \in (DOMAIN heap[o]) \ {k} |-> heap[o][f]]]
    /\ mutations' = mutations + 1
    /\ res' = [op |-> "caller_delitem", obj |-> o]
    /\ UNCHANGED <<axisRef, annClass, annOwn, annTouched, title, labels,
                   layout_overrides>>

-----------------------------------------------------------------------------
(* Layout values *)

\* A sub-key of an override or a key of a nested mapping: a string, an
\* integer (list index) or None.
SK(s) == [kind |-> "str", s |-> s, n |-> 0]
IK(n) == [kind |-> "int", s |-> "", n |-> n]
NoneKey == [kind |-> "none", s |-> "", n |-> 0]

\* A value stored inside a nested mapping or a list: a scalar, or the
\* value taken from axis_range.
Atom(s) == [kind |-> "atom", s |-> s, r |-> Scalar5]
Range(v) == [kind |-> "range", s |-> "", r |-> v]

EmptyMap == [k \in {} |-> Atom("")]

\* Identity of a top-level layout value: a fresh object, the instance's
\* annotations list, or the value object of the j-th override (src = j).
Fresh == 0
AnnSrc == -1

MapE(m, src) == [kind |-> "map", m |-> m, l |-> <<>>, s |-> "", src |-> src]
ListE(l, src) == [kind |-> "list", m |-> EmptyMap, l |-> l, s |-> "", src |-> src]
ScalarE(s, src) == [kind |-> "scalar", m |-> EmptyMap, l |-> <<>>, s |-> s, src |-> src]

Strip(e) == [e EXCEPT !.src = Fresh]

Ov(p, sub, value) == [parent |-> p, sub |-> sub, value |-> value]

\* self.annotations: the instance attribute if there is one, else the
\* class attribute.
annotations(i) == IF annOwn[i].has THEN annOwn[i].val ELSE annClass

-----------------------------------------------------------------------------
(* create_layout, apply_custom_layout, create_figure *)

\* create_layout with the `else` dropped: autorange is always set.
create_layout_always_autorange(i) ==
    LET axisE(a, m) ==
            MapE((IF a \in DOMAIN axis_range(i)
                  THEN (SK("range") :> Range(axis_range(i)[a])) ELSE EmptyMap)
                 @@ (SK("autorange") :> Atom("True")) @@ m, Fresh)
    IN  [annotations |-> ListE(annotations(i), AnnSrc),
         title |-> MapE((SK("text") :> Atom(title[i])), Fresh),
         xaxis |-> axisE("x", (SK("automargin") :> Atom("True"))
                              @@ (SK("title") :> Atom(labels[i].x))),
         yaxis |-> axisE("y", (SK("automargin") :> Atom("True"))
                              @@ (SK("title") :> Atom(labels[i].y))
                              @@ (SK("zeroline") :> Atom("True"))),
         legend |-> MapE((SK("orientation") :> Atom("h"))
                         @@ (SK("y") :> Atom("-0.25")), Fresh),
         hovermode |-> ScalarE("closest", Fresh)]

\* create_layout with the two axis labels swapped.
create_layout_swapped_labels(i) ==
    LET axisE(a, m) ==
            MapE((IF a \in DOMAIN axis_range(i)
                  THEN (SK("range") :> Range(axis_range(i)[a]))
                  ELSE (SK("autorange") :> Atom("True"))) @@ m, Fresh)
    IN  [annotations |-> ListE(annotations(i), AnnSrc),
         title |-> MapE((SK("text") :> Atom(title[i])), Fresh),
         xaxis |-> axisE("x", (SK("automargin") :> Atom("True"))
                              @@ (SK("title") :> Atom(labels[i].y))),
         yaxis |-> axisE("y", (SK("automargin") :> Atom("True"))
                              @@ (SK("title") :> Atom(labels[i].x))
                              @@ (SK("zeroline") :> Atom("True"))),
         legend |-> MapE((SK("orientation") :> Atom("h"))
                         @@ (SK("y") :> Atom("-0.25")), Fresh),
         hovermode |-> ScalarE("closest", Fresh)]

create_layout(i) ==
    LET layout ==
            [annotations |-> ListE(annotations(i), AnnSrc),
             title |-> MapE((SK("text") :> Atom(title[i])), Fresh),
             xaxis |-> MapE((SK("automargin") :> Atom("True"))
                            @@ (SK("title") :> Atom(labels[i].x)), Fresh),
             yaxis |-> MapE((SK("automargin") :> Atom("True"))
                            @@ (SK("title") :> Atom(labels[i].y))
                            @@ (SK("zeroline") :> Atom("True")), Fresh),
             legend |-> MapE((SK("orientation") :> Atom("h"))
                             @@ (SK("y") :> Atom("-0.25")), Fresh),
             hovermode |-> ScalarE("closest", Fresh)]
        WithRange(e, axis) ==
            IF axis \in DOMAIN axis_range(i)
            THEN [e EXCEPT !.m = (SK("range") :> Range(axis_range(i)[axis])) @@ @]
            ELSE [e EXCEPT !.m = (SK("autorange") :> Atom("True")) @@ @]
    IN  [layout EXCEPT !.xaxis = WithRange(@, "x"), !.yaxis = WithRange(@, "y")]

\* The value stored by obj[sub_key] = value (override values given with a
\* sub-key are scalars).
LeafOf(value) == Atom(value.s)

\* obj[sub_key] = value on a top-level layout value.
SetItem(e, sub, value) ==
    IF e.kind = "map"
    THEN [err |-> "none", e |-> [e EXCEPT !.m = (sub :> LeafOf(value)) @@ @]]
    ELSE IF e.kind = "list"
    THEN IF sub.kind # "int" THEN [err |-> "TypeError", e |-> e]
         ELSE IF sub.n >= Len(e.l) THEN [err |-> "IndexError", e |-> e]
         ELSE [err |-> "none", e |-> [e EXCEPT !.l[sub.n + 1] = LeafOf(value)]]
    ELSE [err |-> "TypeError", e |-> e]

\* The loop body replacing the parent by {sub_key: value}.
ApplyOneClobber(st, j) ==
    LET ov == st.ovs[j]
        p == ov.parent
    IN  IF ov.sub.kind # "none"
        THEN IF p \notin DOMAIN st.layout
             THEN [st EXCEPT !.err = "KeyError"]
             ELSE [st EXCEPT !.layout =
                     (p :> MapE((ov.sub :> LeafOf(ov.value)), Fresh)) @@ @]
        ELSE [st EXCEPT !.layout = (p :> [ov.value EXCEPT !.src = j]) @@ @]

\* The loop body creating a missing parent (setdefault) instead of failing.
ApplyOneSetDefault(st, j) ==
    LET ov == st.ovs[j]
        p == ov.parent
    IN  IF ov.sub.kind # "none"
        THEN LET e == IF p \in DOMAIN st.layout THEN st.layout[p]
                      ELSE MapE(EmptyMap, Fresh)
                 r == SetItem(e, ov.sub, ov.value)
             IN  IF r.err # "none"
                 THEN [st EXCEPT !.err = r.err]
                 ELSE [layout |-> (p :> r.e) @@ st.layout,
                       ovs |-> IF e.src > 0
                               THEN [st.ovs EXCEPT ![e.src].value = Strip(r.e)]
                               ELSE st.ovs,
                       ann |-> IF e.src = AnnSrc THEN r.e.l ELSE st.ann,
                       err |-> "none"]
        ELSE [st EXCEPT !.layout = (p :> [ov.value EXCEPT !.src = j]) @@ @]

\* One iteration of the loop of apply_custom_layout.  st.ovs and st.ann
\* carry the objects the layout shares with the instance.
ApplyOne(st, j) ==
    LET ov == st.ovs[j]
        p == ov.parent
    IN  IF ov.sub.kind # "none"
        THEN IF p \notin DOMAIN st.layout
             THEN [st EXCEPT !.err = "KeyError"]
             ELSE LET e == st.layout[p]
                      r == SetItem(e, ov.sub, ov.value)
                  IN  IF r.err # "none"
                      THEN [st EXCEPT !.err = r.err]
                      ELSE [layout |-> [q \in DOMAIN st.layout |->
                                          IF q = p \/ (e.src # Fresh /\ st.layout[q].src = e.src)
                                          THEN r.e ELSE st.layout[q]],
                            ovs |-> IF e.src > 0
                                    THEN [st.ovs EXCEPT ![e.src].value = Strip(r.e)]
                                    ELSE st.ovs,
                            ann |-> IF e.src = AnnSrc THEN r.e.l ELSE st.ann,
                            err |-> "none"]
        ELSE [st EXCEPT !.layout = (p :> [ov.value EXCEPT !.src = j]) @@ @]

RECURSIVE ApplyFrom(_, _)
ApplyFrom(st, j) ==
    IF j > Len(st.ovs) \/ st.err # "none" THEN st
    ELSE ApplyFrom(ApplyOne(st, j), j + 1)

\* apply_custom_layout(layout) on instance i: the returned layout, the
\* error raised if any, and the state of the objects shared with it.
apply_custom_layout(i, layout) ==
    ApplyFrom([layout |-> layout, ovs |-> layout_overrides[i],
               ann |-> annotations(i), err |-> "none"], 1)

\* go.Layout(dict): a new object holding the values of the dictionary.
GoLayout(layout) == [p \in DOMAIN layout |-> Strip(layout[p])]

\* The instance's data members as the caller reads them.
View(i) == [title |-> title[i], labels |-> labels[i],
            layout_overrides |-> layout_overrides[i],
            axis_range |-> axis_range(i), annotations |-> annotations(i)]

\* Write the objects changed through the layout back to where they live.
WriteBack(i, st) ==
    /\ layout_overrides' = [layout_overrides EXCEPT ![i] = st.ovs]
    /\ IF annOwn[i].has
       THEN /\ annOwn' = [annOwn EXCEPT ![i].val = st.ann]
            /\ annClass' = annClass
       ELSE /\ annClass' = st.ann
            /\ annOwn' = annOwn

\* create_figure(df_raw); T is the list returned by the subclass's
\* create_traces(df_raw).
CreateFigure(i, T) ==
    \E base \in {create_layout(i)} :
    \E st \in {apply_custom_layout(i, base)} :
        /\ WriteBack(i, st)
        /\ res' = [op |-> "create_figure", inst |-> i, err |-> st.err,
                   traces |-> T,
                   returned |-> (st.err = "none"),
                   data |-> IF st.err = "none" THEN T ELSE <<>>,
                   layout |-> IF st.err = "none" THEN GoLayout(st.layout)
                              ELSE GoLayout(base),
                   base |-> GoLayout(base),
                   ovs |-> layout_overrides[i],
                   axis |-> axis_range(i),
                   before |-> View(i),
                   after |-> [View(i) EXCEPT !.layout_overrides = st.ovs,
                                             !.annotations = st.ann]]
        /\ UNCHANGED <<heap, axisRef, annTouched, title, labels, mutations>>

\* A layout a subclass's create_layout override may hand over.
CustomLayout ==
    [legend |-> MapE((SK("orientation") :> Atom("v")) @@ (SK("x") :> Atom("1")), Fresh),
     title |-> ScalarE("Plain", Fresh),
     xaxis |-> MapE((SK("title") :> Atom("t")), Fresh)]

BaseLayouts(i) == {create_layout(i), CustomLayout}

\* A direct call of apply_custom_layout(layout).
ApplyCustomLayoutCall(i, base) ==
    \E st \in {apply_custom_layout(i, base)} :
        /\ WriteBack(i, st)
        /\ res' = [op |-> "apply_custom_layout", inst |-> i, err |-> st.err,
                   returned |-> (st.err = "none"),
                   layout |-> GoLayout(st.layout),
                   base |-> GoLayout(base),
                   ovs |-> layout_overrides[i]]
        /\ UNCHANGED <<heap, axisRef, annTouched, title, labels, mutations>>

\* A direct call of create_layout().
CreateLayoutCall(i) ==
    /\ res' = [op |-> "create_layout", inst |-> i,
               layout |-> GoLayout(create_layout(i)),
               axis |-> axis_range(i), annotations |-> annotations(i)]
    /\ UNCHANGED <<heap, axisRef, annClass, annOwn, annTouched, title, labels,
                   layout_overrides, mutations>>

\* self.annotations.append(a)
AppendAnnotation(i, a) ==
    /\ Len(annotations(i)) < MaxAnnotations
    /\ IF annOwn[i].has
       THEN /\ annOwn' = [annOwn EXCEPT ![i].val = Append(@, a)]
            /\ annClass' = annClass
       ELSE /\ annClass' = Append(annClass, a)
            /\ annOwn' = annOwn
    /\ annTouched' = annTouched \cup {i}
    /\ res' = [op |-> "append_annotation", inst |-> i]
    /\ UNCHANGED <<heap, axisRef, title, labels, layout_overrides, mutations>>

\* self.annotations = l, l a new list
AssignAnnotations(i, l) ==
    /\ annOwn' = [annOwn EXCEPT ![i] = [has |-> TRUE, val |-> l]]
    /\ annTouched' = annTouched \cup {i}
    /\ res' = [op |-> "assign_annotations", inst |-> i]
    /\ UNCHANGED <<heap, axisRef, annClass, title, labels, layout_overrides,
                   mutations>>

-----------------------------------------------------------------------------
(* Inputs of the figure operations *)

Note == Atom("note")
AnnLists == {<<>>, <<Note>>}
TraceLists == {<<>>, <<"p1", "p2", "p3">>}

Overrides ==
    {Ov("legend", SK("y"), ScalarE("-0.1", Fresh)),
     Ov("legend", SK("y"), ScalarE("-0.5", Fresh)),
     Ov("legend", NoneKey, MapE((SK("x") :> Atom("1")), Fresh)),
     Ov("title", NoneKey, ScalarE("New Title", Fresh)),
     Ov("title", SK("text"), ScalarE("T2", Fresh)),
     Ov("margin", SK("l"), ScalarE("10", Fresh)),
     Ov("margin", NoneKey, MapE((SK("l") :> Atom("20")), Fresh)),
     Ov("hovermode", SK("x"), ScalarE("1", Fresh)),
     Ov("annotations", IK(0), ScalarE("mark", Fresh))}

RECURSIVE SeqsUpTo(_, _)
SeqsUpTo(S, n) ==
    IF n = 0 THEN {<<>>}
    ELSE LET shorter == SeqsUpTo(S, n - 1)
         IN  shorter \cup {Append(q, e) : q \in shorter, e \in S}

OverrideSeqs == SeqsUpTo(Overrides, MaxOverrides)

AnnOverrideSeqs ==
    {<<>>, <<Ov("annotations", IK(0), ScalarE("mark", Fresh))>>,
     <<Ov("annotations", NoneKey, ListE(<<Atom("own")>>, Fresh))>>}

\* The dicts the caller holds when figures are built.
FigDict(o) ==
    IF o = ClassDict THEN EmptyDict
    ELSE IF o = 1 THEN ("x" :> Lst(<<S0, S0>>)) @@ ("y" :> Lst(<<I0, F0>>))
    ELSE IF o = 2 THEN ("y" :> Lst(<<I0>>))
    ELSE ("y" :> Lst(<<F0, I1>>))

-----------------------------------------------------------------------------
InitCommon ==
    /\ axisRef = [i \in Insts |-> ClassDict]
    /\ annClass = <<>>
    /\ annOwn = [i \in Insts |-> [has |-> FALSE, val |-> <<>>]]
    /\ annTouched = {}
    /\ mutations = 0
    /\ res = [op |-> "init"]

InitAxis ==
    /\ InitCommon
    /\ \E d \in AxisInputs :
          heap = [o \in ObjIds |-> IF o = ClassDict THEN EmptyDict
                                   ELSE IF o = 1 THEN d ELSE OtherInput(o)]
    /\ title = [i \in Insts |-> "Sales"]
    /\ labels = [i \in Insts |-> [x |-> "Date", y |-> "Units"]]
    /\ layout_overrides = [i \in Insts |-> <<>>]

NextAxis ==
    \/ \E i \in Insts, o \in ObjIds : SetAxisRange(i, o)
    \/ \E i \in Insts : CreateLayoutCall(i)
    \/ \E o \in ObjIds, k \in Keys, v \in MutVals : CallerSetItem(o, k, v)
    \/ \E o \in ObjIds, k \in Keys : CallerDelItem(o, k)

SpecAxis == InitAxis /\ [][NextAxis]_vars

InitFig ==
    /\ InitCommon
    /\ heap = [o \in ObjIds |-> FigDict(o)]
    /\ \E tl \in {<<"Sales", "Date">>, <<"", "">>} :
          /\ title = [i \in Insts |-> tl[1]]
          /\ labels = [i \in Insts |-> [x |-> tl[2], y |-> "Units"]]
    /\ \E ovs \in OverrideSeqs : layout_overrides = [i \in Insts |-> ovs]

NextFig ==
    \/ \E o \in CallerDicts : SetAxisRange("A", o)
    \/ \E i \in Insts, T \in TraceLists : CreateFigure(i, T)
    \/ \E i \in Insts : \E base \in BaseLayouts(i) : ApplyCustomLayoutCall(i, base)
    \/ \E a \in {Note} : AppendAnnotation("A", a)

SpecFig == InitFig /\ [][NextFig]_vars

InitAnn ==
    /\ InitCommon
    /\ heap = [o \in ObjIds |-> FigDict(o)]
    /\ \E tl \in {<<"Sales", "Date">>, <<"", "">>} :
          /\ title = [i \in Insts |-> tl[1]]
          /\ labels = [i \in Insts |-> [x |-> tl[2], y |-> "Units"]]
    /\ \E ovs \in AnnOverrideSeqs : layout_overrides = [i \in Insts |-> ovs]

NextAnn ==
    \/ \E i \in Insts, a \in {Note} : AppendAnnotation(i, a)
    \/ \E i \in Insts, l \in AnnLists : AssignAnnotations(i, l)
    \/ \E i \in Insts : CreateLayoutCall(i)
    \/ \E i \in Insts, T \in TraceLists : CreateFigure(i, T)

SpecAnn == InitAnn /\ [][NextAnn]_vars

-----------------------------------------------------------------------------
(* Properties of the axis_range property (SpecAxis) *)

Permitted == {"integer", "float", "string"}
Numeric == {"integer", "float"}

WellFormedAxis(v, types) ==
    /\ v.type = "list"
    /\ Len(v.items) = 2
    /\ \A n \in 1..2 : v.items[n].type \in types

\* An input that is invalid in one of the three ways the specification names.
InvalidInput(d) ==
    \/ \E k \in DOMAIN d : k \notin {"x", "y"}
    \/ \E k \in DOMAIN d : (d[k].type # "list" \/ Len(d[k].items) # 2)
    \/ \E k \in DOMAIN d : d[k].type = "list" /\
          \E n \in 1..Len(d[k].items) : d[k].items[n].type \notin Permitted

\* Valid as the specification words it: number-or-string bounds on either axis.
ValidAnyAxis(d) ==
    /\ DOMAIN d \subseteq {"x", "y"}
    /\ \A k \in DOMAIN d : WellFormedAxis(d[k], Permitted)

\* Valid with numeric-only bounds on y.
ValidNumericY(d) ==
    /\ DOMAIN d \subseteq {"x", "y"}
    /\ "x" \in DOMAIN d => WellFormedAxis(d["x"], Permitted)
    /\ "y" \in DOMAIN d => WellFormedAxis(d["y"], Numeric)

\* C1: an assignment of an invalid axis_range fails with the setter's error
\* and a read after it returns what a read before it returned.
C1_InvalidRejected ==
    (res.op = "set_axis_range" /\ InvalidInput(res.arg))
        => (res.err = "RuntimeError" /\ res.after = res.before)

C1_Witness ==
    /\ res.op = "set_axis_range"
    /\ InvalidInput(res.arg)
    /\ res.before # EmptyDict
    /\ res.err = "RuntimeError"

\* C2 as stated: every input with number-or-string bounds on either axis is
\* accepted and read back equal.
C2_AnyAxisAccepted ==
    (res.op = "set_axis_range" /\ ValidAnyAxis(res.arg))
        => (res.err = "none" /\ res.after = res.arg)

\* C2 amended: inputs whose x bounds are numbers or strings and whose y bounds
\* are numbers are accepted and read back equal; an otherwise well-formed
\* input with a string bound on y is rejected.
C2_NumericYAccepted ==
    /\ (res.op = "set_axis_range" /\ ValidNumericY(res.arg))
          => (res.err = "none" /\ res.after = res.arg)
    /\ (res.op = "set_axis_range" /\ ValidAnyAxis(res.arg) /\ ~ValidNumericY(res.arg))
          => (res.err = "RuntimeError" /\ res.after = res.before)

C2_Witness ==
    /\ res.op = "set_axis_range"
    /\ ValidNumericY(res.arg)
    /\ DOMAIN res.arg = {"x", "y"}
    /\ res.arg["x"].items[1].type = "string"
    /\ res.err = "none"
    /\ res.after = res.arg

AxisName(a) == IF a = "x" THEN "xaxis" ELSE "yaxis"

\* The axis entries of layout L are those of an instance whose axis_range is d.
AxesFollow(L, d) ==
    /\ \A a \in {"x", "y"} :
          LET m == L[AxisName(a)].m
          IN  IF a \in DOMAIN d
              THEN /\ SK("range") \in DOMAIN m
                   /\ m[SK("range")] = Range(d[a])
                   /\ SK("autorange") \notin DOMAIN m
              ELSE /\ SK("autorange") \in DOMAIN m
                   /\ m[SK("autorange")] = Atom("True")
                   /\ SK("range") \notin DOMAIN m
    /\ SK("zeroline") \in DOMAIN L["yaxis"].m
    /\ L["yaxis"].m[SK("zeroline")] = Atom("True")
    /\ SK("zeroline") \notin DOMAIN L["xaxis"].m

\* C3: create_layout() gives each axis exactly one of range / autorange
\* according to the stored axis_range; yaxis has zeroline, xaxis has not.
C3_LayoutAxes ==
    res.op = "create_layout" => AxesFollow(res.layout, res.axis)

C3_Witness ==
    /\ res.op = "create_layout"
    /\ "x" \in DOMAIN res.axis
    /\ "y" \notin DOMAIN res.axis

\* The stored value satisfies the schema as the specification words it.
SchemaOK(d) ==
    /\ DOMAIN d \subseteq {"x", "y"}
    /\ \A k \in DOMAIN d : WellFormedAxis(d[k], Permitted)

\* C9: the axis_range stored on every instance validates against the schema.
C9_StoredAxisRangeValid ==
    \A i \in Insts : SchemaOK(axis_range(i))

\* C10: an assignment (successful or failed) on one instance leaves the
\* axis_range of every other instance as it was, and the other instance's
\* layout follows its own value.
C10_PerInstance ==
    res.op = "set_axis_range" =>
        \A j \in Insts \ {res.inst} :
            /\ axis_range(j) = res.others[j]
            /\ AxesFollow(GoLayout(create_layout(j)), res.others[j])

C10_Witness ==
    /\ res.op = "set_axis_range"
    /\ res.inst = "A"
    /\ res.err = "none"
    /\ res.others["B"] # EmptyDict
    /\ res.after # res.others["B"]
    /\ axis_range("B") = res.others["B"]

-----------------------------------------------------------------------------
(* Properties of the layout operations (SpecFig, SpecAnn) *)

MaxOf(S) == CHOOSE n \in S : \A k \in S : k <= n

Item(e, sub) == IF e.kind = "map" THEN e.m[sub] ELSE e.l[sub.n + 1]

ItemKeys(e) ==
    IF e.kind = "map" THEN DOMAIN e.m
    ELSE IF e.kind = "list" THEN {IK(n - 1) : n \in 1..Len(e.l)}
    ELSE {}

\* Index of the last wholesale override of parent p, 0 if there is none.
LastWholesale(ovs, p) ==
    LET W == {j \in 1..Len(ovs) : ovs[j].parent = p /\ ovs[j].sub = NoneKey}
    IN  IF W = {} THEN 0 ELSE MaxOf(W)

\* The sub-key overrides of p that come after its last wholesale override.
Patches(ovs, p) ==
    {j \in 1..Len(ovs) : ovs[j].parent = p /\ j > LastWholesale(ovs, p)}

\* L is the left-to-right fold of ovs over L0, stated key by key: a parent
\* starts from its last wholesale replacement (or its base value), each
\* sub-key holds the value of the last override that targets it, and
\* everything not targeted is as it was.
FoldHolds(L0, ovs, L) ==
    /\ DOMAIN L = (DOMAIN L0) \cup {ovs[j].parent : j \in 1..Len(ovs)}
    /\ \A p \in DOMAIN L :
          /\ p \in DOMAIN L0 \/ LastWholesale(ovs, p) > 0
          /\ LET w == LastWholesale(ovs, p)
                 start == IF w > 0 THEN Strip(ovs[w].value) ELSE L0[p]
                 pj == Patches(ovs, p)
             IN  /\ L[p].kind = start.kind
                 /\ L[p].s = start.s
                 /\ ItemKeys(L[p]) = ItemKeys(start) \cup {ovs[j].sub : j \in pj}
                 /\ \A s \in ItemKeys(L[p]) :
                       LET T == {j \in pj : ovs[j].sub = s}
                       IN  Item(L[p], s) = IF T = {} THEN Item(start, s)
                                           ELSE Atom(ovs[MaxOf(T)].value.s)

\* C4: apply_custom_layout returns the in-order fold of the overrides: a
\* sub-key override changes that sub-key only, a wholesale override replaces
\* the parent, and the later of two colliding overrides wins.
C4_FoldInOrder ==
    (res.op = "apply_custom_layout" /\ res.err = "none")
        => FoldHolds(res.base, res.ovs, res.layout)

C4_Witness ==
    /\ res.op = "apply_custom_layout"
    /\ res.err = "none"
    /\ Len(res.ovs) = 2
    /\ res.ovs[1].parent = "legend" /\ res.ovs[2].parent = "legend"
    /\ res.ovs[1].sub = SK("y") /\ res.ovs[2].sub = SK("y")
    /\ res.ovs[1].value # res.ovs[2].value
    /\ res.layout["legend"].m[SK("y")] = Atom(res.ovs[2].value.s)
    /\ res.layout["legend"].m[SK("orientation")] = res.base["legend"].m[SK("orientation")]

\* What parent p is when override j is reached, if all earlier overrides
\* were applied: "missing", or the kind of the value last put there.
ParentBefore(L0, ovs, j) ==
    LET p == ovs[j].parent
        W == {k \in 1..(j - 1) : ovs[k].parent = p /\ ovs[k].sub = NoneKey}
    IN  IF W # {} THEN ovs[MaxOf(W)].value
        ELSE IF p \in DOMAIN L0 THEN L0[p]
        ELSE [kind |-> "missing", m |-> EmptyMap, l |-> <<>>, s |-> "", src |-> Fresh]

NeedsMapping(L0, ovs, j) ==
    ovs[j].sub # NoneKey /\ ParentBefore(L0, ovs, j).kind # "map"

\* j is the first sub-key override whose parent is not a nested mapping.
FirstNonMapping(L0, ovs, j) ==
    /\ NeedsMapping(L0, ovs, j)
    /\ \A k \in 1..(j - 1) : ~NeedsMapping(L0, ovs, k)

LayoutOp == res.op \in {"apply_custom_layout", "create_figure"}

\* C5 as stated: a sub-key override whose parent is not a nested mapping
\* (missing or a non-mapping value) makes the call fail with KeyError.
C5_NonMappingIsKeyError ==
    LayoutOp =>
        \A j \in 1..Len(res.ovs) :
            FirstNonMapping(res.base, res.ovs, j)
                => (res.err = "KeyError" /\ ~res.returned)

\* C5 amended: a missing parent fails with KeyError and no figure is
\* returned; a parent holding a string fails with TypeError; a parent holding
\* a list takes the sub-key as an index (IndexError out of range, TypeError
\* for a string sub-key, no failure in range).
C5_MissingIsKeyError ==
    LayoutOp =>
        \A j \in 1..Len(res.ovs) :
            FirstNonMapping(res.base, res.ovs, j) =>
                LET e == ParentBefore(res.base, res.ovs, j)
                    sub == res.ovs[j].sub
                IN  /\ e.kind = "missing" => (res.err = "KeyError" /\ ~res.returned)
                    /\ e.kind = "scalar" => (res.err = "TypeError" /\ ~res.returned)
                    /\ (e.kind = "list" /\ sub.kind = "str")
                          => (res.err = "TypeError" /\ ~res.returned)
                    /\ (e.kind = "list" /\ sub.kind = "int" /\ sub.n >= Len(e.l))
                          => (res.err = "IndexError" /\ ~res.returned)
                    /\ (e.kind = "list" /\ sub.kind = "int" /\ sub.n < Len(e.l)
                        /\ \A k \in (j + 1)..Len(res.ovs) :
                              ~NeedsMapping(res.base, res.ovs, k))
                          => (res.err = "none" /\ res.returned)

C5_Witness ==
    /\ res.op = "create_figure"
    /\ \E j \in 1..Len(res.ovs) :
          /\ FirstNonMapping(res.base, res.ovs, j)
          /\ ParentBefore(res.base, res.ovs, j).kind = "missing"
    /\ res.err = "KeyError"
    /\ ~res.returned

\* C6: an instance whose annotations the caller never changed still has the
\* default empty list, in the attribute and in create_layout().
C6_AnnotationsNotShared ==
    \A i \in Insts :
        i \notin annTouched =>
            /\ annotations(i) = <<>>
            /\ create_layout(i)["annotations"].l = <<>>

\* C7: create_figure leaves title, labels, layout_overrides, axis_range and
\* annotations of the instance as they were.
C7_NoSideEffects ==
    res.op = "create_figure" => res.after = res.before

\* C8: the figure's data is the trace list of create_traces, its layout is
\* the fold of the overrides over create_layout(), and with no overrides and
\* an empty axis_range it carries the title, the x label with autorange, and
\* a horizontal legend.
C8_Figure ==
    (res.op = "create_figure" /\ res.err = "none") =>
        /\ res.data = res.traces
        /\ FoldHolds(res.base, res.ovs, res.layout)
        /\ AxesFollow(res.base, res.axis)
        /\ res.base["title"].m[SK("text")] = Atom(res.before.title)
        /\ res.base["xaxis"].m[SK("title")] = Atom(res.before.labels.x)
        /\ res.base["yaxis"].m[SK("title")] = Atom(res.before.labels.y)
        /\ res.base["legend"].m[SK("orientation")] = Atom("h")
        /\ (res.ovs = <<>> /\ res.axis = EmptyDict) =>
              /\ res.layout["title"].m[SK("text")] = Atom(res.before.title)
              /\ res.layout["xaxis"].m[SK("title")] = Atom(res.before.labels.x)
              /\ res.layout["xaxis"].m[SK("autorange")] = Atom("True")
              /\ res.layout["legend"].m[SK("orientation")] = Atom("h")

C8_Witness ==
    /\ res.op = "create_figure"
    /\ res.err = "none"
    /\ res.ovs = <<>>
    /\ res.axis = EmptyDict
    /\ res.traces = <<"p1", "p2", "p3">>
    /\ res.data = <<"p1", "p2", "p3">>
    /\ res.layout["title"].m[SK("text")] = Atom("Sales")
    /\ res.layout["xaxis"].m[SK("title")] = Atom("Date")

====
